---- MODULE Spec2Model ----
(***************************************************************************)
(* Seat reservation and payment reconciliation of the IBBS backend:        *)
(*   app/services/seat_lock.py        Redis seat leases                    *)
(*   app/modules/bookings/router.py   lock / confirm / release endpoints   *)
(*   app/modules/payments/router.py   initiate / webhook endpoints         *)
(*   app/services/payment_gateway.py  signature check, idempotency markers *)
(*   app/models/models.py             Trip, Booking, Payment rows          *)
(*                                                                         *)
(* Every request is served by an independent task.  A task is suspended    *)
(* only at its awaits on Redis and on the database, so a handler is        *)
(* modelled as one action per store round trip: a Redis command (or Lua    *)
(* script) is one atomic step and a database transaction is one atomic     *)
(* step taken at its commit (all its writes are keyed by primary key and   *)
(* the trips row is updated in place under its row lock).                  *)
(***************************************************************************)
EXTENDS Integers, Sequences, FiniteSets, Bags, TLC

\* ------------------------------------------------------------------ bounds
MaxTokens == 2        \* uuid4 lease tokens drawn in one behaviour of Spec
MaxTTL == 1           \* largest ttl (in ticks) a lock request of Spec asks for
MaxPayments == 1      \* payment rows created in one behaviour
MaxConflicts == 2     \* refused lock requests counted per lease
MaxLeaseTokens == 3   \* uuid4 lease tokens drawn in one behaviour of SpecLease
MaxLeaseTTL == 2      \* largest ttl a lock request of SpecLease asks for
MaxExpiryTokens == 5  \* uuid4 lease tokens drawn in one behaviour of SpecExpiry
MaxExpiryTTL == 4     \* largest ttl a lock request of SpecExpiry asks for
MaxRetryTokens == 1   \* uuid4 lease tokens drawn in one behaviour of SpecRetry
MaxRetryPayments == 2 \* payment rows created in one behaviour of SpecRetry
MaxHookTokens == 1    \* uuid4 lease tokens drawn in one behaviour of SpecHook
MaxHookPayments == 1  \* payment rows created in one behaviour of SpecHook
MaxNotifications == 2 \* notification tasks queued in one behaviour of SpecNotify
MaxJtis == 3          \* uuid4 jtis drawn in one behaviour of SpecAuth

Trips == {1}
Seats == {1, 2}             \* the seats of the trip's seat map
Keys == Trips \X Seats
Workers == {1, 2}           \* requests that can be suspended at an await together

\* Optional[...] values: None, or Some(x)
None == <<>>
Some(x) == <<x>>
\* Python's `a or b` on Optional values
Or(a, b) == IF a # None THEN a ELSE b

NoLease == [token |-> 0, ttl |-> 0]
NoAcq == [ok |-> 0, conflict |-> 0]
NoConfirm == [key |-> <<0, 0>>, won |-> 0, booked |-> 0, conflict |-> 0]

VARIABLES
    leases,           \* Redis: seat_lock:{trip}:{seat} -> token, with remaining ttl
    nextToken,        \* the next uuid4 that lock_seat draws
    markers,          \* Redis: payment_webhook:{provider}:{event_id} keys
    seats_available,  \* trips.seats_available, per trip
    bookings,         \* bookings table, row id = position
    payments,         \* payments table, row id = position
    tasks,            \* bag of requests suspended between two store round trips
    last,             \* the request answered last, with its response
    capacity,         \* seats_available the trip row was created with
    \* history (written, never read by the handlers)
    acq,              \* per key: locks granted/refused since the key was last absent
    confirms,         \* per token: the key it was consumed at, and the confirm calls that
                      \* consumed it / were answered 200 / were answered Conflict
    confirmed_calls,  \* per key: confirm calls answered 200
    restored,         \* per booking: seats_available increments made on its behalf
    applied,          \* per marker: webhook transactions run by deliveries of its event
    \* authentication and notifications
    refresh_keys,     \* Redis: refresh:{jti} -> user id
    nextJti,          \* the next uuid4 that create_refresh_token draws
    refreshed,        \* history, per jti: refresh calls presenting it answered with new tokens
    notifications,    \* Celery: the send_notification_task messages, per task id
    notification_dlq  \* Redis: the list notification_dlq

redis == <<leases, nextToken, markers>>
ledger == <<seats_available, bookings, payments>>
history == <<acq, confirms, confirmed_calls, restored, applied>>
auth == <<refresh_keys, nextJti, refreshed>>
notify == <<notifications, notification_dlq>>
vars == <<leases, nextToken, markers, seats_available, bookings, payments,
          tasks, last, capacity, acq, confirms, confirmed_calls, restored, applied,
          refresh_keys, nextJti, refreshed, notifications, notification_dlq>>

\* ------------------------------------------------------ requests, responses
\* One record shape for every endpoint; the fields an endpoint does not have stay at
\* their defaults.  For a webhook event_id, provider_ref and status are what the
\* handler extracted from the body.
NoReq ==
    [op |-> "none", trip_id |-> 0, seat_id |-> 0, token |-> None, booking_id |-> 0,
     provider |-> "", event_id |-> None, provider_ref |-> None, status |-> None]
LockReq(trip, seat) == [NoReq EXCEPT !.op = "lock", !.trip_id = trip, !.seat_id = seat]
ConfirmReq(trip, seat, token) ==
    [NoReq EXCEPT !.op = "confirm", !.trip_id = trip, !.seat_id = seat, !.token = Some(token)]
ReleaseReq(trip, seat, token) ==
    [NoReq EXCEPT !.op = "release", !.trip_id = trip, !.seat_id = seat, !.token = token]
InitiateReq(booking_id, provider) ==
    [NoReq EXCEPT !.op = "initiate", !.booking_id = booking_id, !.provider = provider]
WebhookReq(provider, event_id, provider_ref, status) ==
    [NoReq EXCEPT !.op = "webhook", !.provider = provider, !.event_id = event_id,
                  !.provider_ref = provider_ref, !.status = status]

\* status and detail of the HTTP response, and the id its body carries (lock token,
\* booking id, payment id).  For a 200 the detail names the return that answered.
Response(status, detail, id) == [status |-> status, detail |-> detail, id |-> id]
NoResponse == Response(0, "", 0)
\* WebhookAck(received=True) of payment_webhook: after the transaction, for an event
\* EXISTS found marked, for an event SET NX found marked
WebhookAck == Response(200, "received", 0)
ReplayAck == Response(200, "received: replay", 0)
RaceAck == Response(200, "received: race", 0)
IsAck(resp) == resp \in {WebhookAck, ReplayAck, RaceAck}

\* what the model keeps of an answered request: the endpoint, the lease key and
\* token it named (if any), the provider it named (if any) and the response
Answer(r, response) ==
    [op |-> r.op, trip_id |-> r.trip_id, seat_id |-> r.seat_id, token |-> r.token,
     provider |-> r.provider, resp |-> response]
Task(r, at) == [req |-> r, pc |-> at]

Suspend(bag, t) == bag (+) SetToBag({t})
Resume(bag, t) == bag (-) SetToBag({t})

\* ------------------------------------------------------------ Redis leases
\* SET key value EX ttl, the NX forgotten: the key is overwritten
RedisSetOverwrite(store, key, value, ttl) ==
    [ok |-> TRUE, store |-> [store EXCEPT ![key] = [token |-> value, ttl |-> ttl]]]

\* SET key value EX ttl NX
RedisSetNX(store, key, value, ttl) ==
    IF store[key] = NoLease
    THEN [ok |-> TRUE, store |-> [store EXCEPT ![key] = [token |-> value, ttl |-> ttl]]]
    ELSE [ok |-> FALSE, store |-> store]

\* DEL key
RedisDelete(store, key) == [store EXCEPT ![key] = NoLease]

\* the script comparing but not deleting: a matching token is reported, the key stays
CasNoDel(store, key, token) ==
    IF store[key] # NoLease /\ store[key].token = token
    THEN [res |-> 1, store |-> store]
    ELSE [res |-> 0, store |-> store]

\* _CAS_DEL_SCRIPT: if GET key == ARGV[1] then DEL key (1) else 0
CasDel(store, key, token) ==
    IF store[key] # NoLease /\ store[key].token = token
    THEN [res |-> 1, store |-> RedisDelete(store, key)]
    ELSE [res |-> 0, store |-> store]

\* lock_seat: Some(token) on success, None when the key is already set
lock_seat(store, key, token, ttl) ==
    LET r == RedisSetNX(store, key, token, ttl)
    IN  IF ~r.ok THEN [result |-> None, store |-> r.store]
                 ELSE [result |-> Some(token), store |-> r.store]

\* a consume that validates nothing
AcceptAnyToken(store, key, token) == [ok |-> TRUE, store |-> store]

\* a consume that deletes whatever lease the key holds, without comparing tokens
ConsumeAnyLock(store, key, token) ==
    [ok |-> store[key] # NoLease, store |-> RedisDelete(store, key)]

\* validate_and_consume_lock: True iff the script deleted the key
validate_and_consume_lock(store, key, token) ==
    LET r == CasDel(store, key, token)
    IN  [ok |-> r.res # 0, store |-> r.store]

\* what a command sent to Redis meets when it is not "answered": no connection, the
\* command not run; or the command run and the connection lost before its reply
StoreErrors == {"unreachable", "reply_lost"}

\* a consume that lets the request through when the store fails
ConsumeFailOpen(store, key, token, outcome) ==
    LET r == validate_and_consume_lock(store, key, token)
    IN  CASE outcome = "answered" -> r
          [] outcome = "reply_lost" -> [ok |-> TRUE, store |-> r.store]
          [] OTHER -> [ok |-> TRUE, store |-> store]

\* validate_and_consume_lock with its try/except: redis_client.eval raising is
\* reported as False, whether the script ran or not
try_consume(store, key, token, outcome) ==
    LET r == validate_and_consume_lock(store, key, token)
    IN  CASE outcome = "answered" -> r
          [] outcome = "reply_lost" -> [ok |-> FALSE, store |-> r.store]
          [] OTHER -> [ok |-> FALSE, store |-> store]

\* a release that reports whether DEL removed a key
ReleaseReportingDeleted(store, key, token) ==
    IF token = None
    THEN [ok |-> store[key] # NoLease, store |-> [store EXCEPT ![key] = NoLease]]
    ELSE [ok |-> store[key] # NoLease /\ store[key].token = token[1],
          store |-> IF store[key] # NoLease /\ store[key].token = token[1]
                    THEN [store EXCEPT ![key] = NoLease] ELSE store]

\* a release that deletes the key whatever token is supplied
ReleaseIgnoringToken(store, key, token) ==
    [ok |-> TRUE, store |-> [store EXCEPT ![key] = NoLease]]

\* release_lock: unconditional delete without a token, compare-and-delete with one
release_lock(store, key, token) ==
    IF token = None
    THEN [ok |-> TRUE, store |-> RedisDelete(store, key)]
    ELSE LET r == CasDel(store, key, token[1])
         IN  [ok |-> r.res # 0, store |-> r.store]

\* the grant/refusal counts of a key start again whenever the key is absent
AcqReset(store, a) == [k \in Keys |-> IF store[k] = NoLease THEN NoAcq ELSE a[k]]

Min(a, b) == IF a < b THEN a ELSE b

\* ---------------------------------------------------------------- ledger
Booking(trip, seat, status) == [trip_id |-> trip, seat_id |-> seat, status |-> status]

\* bookings without the unique constraint
NoUqTripSeat(rows, trip, seat) == FALSE

\* the constraint as a partial unique index over the rows that are not cancelled
UqAmongActive(rows, trip, seat) ==
    \E i \in 1..Len(rows) :
       rows[i].trip_id = trip /\ rows[i].seat_id = seat /\ rows[i].status # "cancelled"

\* uq_trip_seat: UniqueConstraint("trip_id", "seat_id") over all rows, whatever their status
ViolatesUqTripSeat(rows, trip, seat) ==
    \E i \in 1..Len(rows) : rows[i].trip_id = trip /\ rows[i].seat_id = seat

\* an update that reports a row also when seats_available is 0
DecrementUnlessZero(avail, trip) ==
    IF trip \in DOMAIN avail /\ avail[trip] > 0
    THEN [rowcount |-> 1, avail |-> [avail EXCEPT ![trip] = @ - 1]]
    ELSE [rowcount |-> 1, avail |-> avail]

\* the update without its WHERE seats_available > 0
DecrementAlways(avail, trip) ==
    IF trip \in DOMAIN avail
    THEN [rowcount |-> 1, avail |-> [avail EXCEPT ![trip] = @ - 1]]
    ELSE [rowcount |-> 0, avail |-> avail]

\* UPDATE trips SET seats_available = seats_available - 1
\*   WHERE id = :trip AND seats_available > 0      (rowcount, new column values)
DecrementSeats(avail, trip) ==
    IF trip \in DOMAIN avail /\ avail[trip] > 0
    THEN [rowcount |-> 1, avail |-> [avail EXCEPT ![trip] = @ - 1]]
    ELSE [rowcount |-> 0, avail |-> avail]

\* decrement and insert in autocommit: the decrement stays when the insert fails
ConfirmWithoutRollback(avail, rows, trip, seat) ==
    IF ~(trip \in DOMAIN avail /\ avail[trip] > 0)
    THEN [avail |-> avail, rows |-> rows, resp |-> Response(409, "No seats available", 0)]
    ELSE IF \E i \in 1..Len(rows) : rows[i].trip_id = trip /\ rows[i].seat_id = seat
    THEN [avail |-> [avail EXCEPT ![trip] = @ - 1], rows |-> rows,
          resp |-> Response(409, "Seat already booked", 0)]
    ELSE [avail |-> [avail EXCEPT ![trip] = @ - 1],
          rows |-> Append(rows, [trip_id |-> trip, seat_id |-> seat, status |-> "confirmed"]),
          resp |-> Response(200, "confirmed", Len(rows) + 1)]

\* the transaction of confirm_booking: conditional decrement, then the insert;
\* either exception rolls both back
ConfirmTransaction(avail, rows, trip, seat) ==
    LET upd == DecrementSeats(avail, trip)
    IN  IF upd.rowcount = 0
        THEN [avail |-> avail, rows |-> rows,
              resp |-> Response(409, "No seats available", 0)]
        ELSE IF ViolatesUqTripSeat(rows, trip, seat)
        THEN [avail |-> avail, rows |-> rows,
              resp |-> Response(409, "Seat already booked", 0)]
        ELSE [avail |-> upd.avail,
              rows |-> Append(rows, Booking(trip, seat, "confirmed")),
              resp |-> Response(200, "confirmed", Len(rows) + 1)]


\* --------------------------------------------------------- payment gateway
\* settings.*_SECRET as the deployment's .env sets them: AIRTEL_SECRET is left at its
\* default
Secret(adapter) ==
    CASE adapter = "flutterwave" -> "flw-secret"
      [] adapter = "mtn" -> "mtn-secret"
      [] OTHER -> ""

\* str.lower() on the provider names and status strings the model uses
Lower(str) ==
    CASE str = "MTN" -> "mtn"
      [] str = "FAILED" -> "failed"
      [] str = "Success" -> "success"
      [] OTHER -> str

ADAPTERS == {"flutterwave", "mtn", "airtel"}

\* hmac.new(secret, body, sha256).hexdigest(): one digest per (secret, body)
Hmac(secret, body) == <<"hmac", secret, body>>

\* dict.get(name): Some(value), or None when the key is missing
Get(dict, name) == IF name \in DOMAIN dict THEN Some(dict[name]) ELSE None
EmptyDict == [x \in {} |-> x]
\* payload.get("data", {})
DataOf(payload) == IF "data" \in DOMAIN payload THEN payload["data"] ELSE EmptyDict

\* a verification that accepts whatever is presented
AcceptAnySignature(adapter, headers, body) == TRUE

\* a verification without the guard on an empty secret
VerifyWithEmptySecret(adapter, headers, body) ==
    LET secret == Secret(adapter)
        sig_header == Or(Get(headers, "x-signature"), Get(headers, "x-flutterwave-signature"))
    IN  sig_header = Some(Hmac(secret, body))

\* BaseAdapter.verify_signature over the headers and the raw body
verify_signature(adapter, headers, body) ==
    LET secret == Secret(adapter)
        sig_header == Or(Get(headers, "x-signature"), Get(headers, "x-flutterwave-signature"))
    IN  IF secret = "" THEN FALSE
        ELSE sig_header = Some(Hmac(secret, body))

\* the event id payment_webhook deduplicates on
ExtractEventId(payload) ==
    LET top == Or(Get(payload, "id"), Or(Get(payload, "event_id"),
               Or(Get(payload, "tx_id"), Get(payload, "transaction_id"))))
    IN  IF top # None THEN top
        ELSE Or(Get(DataOf(payload), "id"), Get(DataOf(payload), "tx_ref"))

\* "basic normalization for common providers": (status_str, provider_ref)
Normalize(provider, payload) ==
    IF Lower(provider) = "flutterwave"
    THEN LET data == DataOf(payload)
         IN  [status_str |-> Get(data, "status"),
              provider_ref |-> Or(Get(data, "tx_ref"), Get(data, "flw_ref"))]
    ELSE LET data == IF "data" \in DOMAIN payload THEN payload["data"] ELSE payload
         IN  [status_str |-> Or(Get(data, "status"), Get(data, "transaction_status")),
              provider_ref |-> Or(Get(data, "transaction_id"), Get(data, "tx_ref"))]

\* a handler whose success branch matches no status
NoSuccessStatuses == {}

SuccessStatuses == {"successful", "success", "paid", "completed"}
FailedStatuses == {"failed", "failed_attempt", "error", "declined", "cancelled"}
\* a normalisation that takes every status for a failure
AnyStatusFailed(status_str) == "failed"

\* lcstatus = (status_str or '').lower()
LcStatus(status_str) == IF status_str = None THEN "" ELSE Lower(status_str[1])

\* a check that never finds the marker
NeverProcessed(keys, provider, event_id) == FALSE

\* is_event_processed: EXISTS payment_webhook:{provider}:{event_id}
is_event_processed(keys, provider, event_id) == <<provider, event_id>> \in keys

\* the marker written with a plain SET: every caller is told it added the key
MarkWithoutNX(keys, provider, event_id) ==
    [added |-> TRUE, keys |-> keys \cup {<<provider, event_id>>}]

\* mark_event_processed: SET payment_webhook:{provider}:{event_id} 1 EX ttl NX
mark_event_processed(keys, provider, event_id) ==
    IF <<provider, event_id>> \in keys
    THEN [added |-> FALSE, keys |-> keys]
    ELSE [added |-> TRUE, keys |-> keys \cup {<<provider, event_id>>}]

\* the reference the simulated provider API hands out: f"{provider}_{uuid4().hex}"
RefNames == <<"R1", "R2", "R3", "R4">>

\* a payment row that ignores the status it is created with
PaymentPending(booking_id, provider, provider_ref, status) ==
    [booking_id |-> booking_id, provider |-> provider,
     provider_ref |-> provider_ref, status |-> "pending"]

Payment(booking_id, provider, provider_ref, status) ==
    [booking_id |-> booking_id, provider |-> provider,
     provider_ref |-> provider_ref, status |-> status]

\* sa_select(Payment).where(Payment.provider_ref == provider_ref) ... .first(): row id or 0
FindPayment(rows, provider_ref) ==
    IF \E i \in 1..Len(rows) : Some(rows[i].provider_ref) = provider_ref
    THEN CHOOSE i \in 1..Len(rows) :
            /\ Some(rows[i].provider_ref) = provider_ref
            /\ \A j \in 1..(i - 1) : Some(rows[j].provider_ref) # provider_ref
    ELSE 0

\* a failed branch that forgets the update
NoIncrement(avail, trip) == avail

\* UPDATE trips SET seats_available = seats_available + 1 WHERE id = :trip
IncrementSeats(avail, trip) ==
    IF trip \in DOMAIN avail THEN [avail EXCEPT ![trip] = @ + 1] ELSE avail

\* the transaction with a status gate: only a confirmed booking is paid or cancelled
GatedTransaction(avail, brows, prows, provider_ref, status_str) ==
    LET pay == IF \E i \in 1..Len(prows) : Some(prows[i].provider_ref) = provider_ref
               THEN CHOOSE i \in 1..Len(prows) : Some(prows[i].provider_ref) = provider_ref
               ELSE 0
        same == [avail |-> avail, bookings |-> brows, payments |-> prows, cancelled |-> 0]
    IN  IF pay = 0 THEN same @@ [resp |-> Response(500, "IntegrityError", 0)]
        ELSE LET b == prows[pay].booking_id
                 paid == [prows EXCEPT ![pay].status =
                            IF status_str = None THEN @ ELSE status_str[1]]
             IN  IF brows[b].status # "confirmed"
                 THEN [same EXCEPT !.payments = paid] @@ [resp |-> WebhookAck]
                 ELSE IF status_str = Some("success")
                 THEN [avail |-> avail, bookings |-> [brows EXCEPT ![b].status = "paid"],
                       payments |-> paid, cancelled |-> 0, resp |-> WebhookAck]
                 ELSE [avail |-> [avail EXCEPT ![brows[b].trip_id] = @ + 1],
                       bookings |-> [brows EXCEPT ![b].status = "cancelled"],
                       payments |-> paid, cancelled |-> b, resp |-> WebhookAck]

\* the transaction of payment_webhook.  A payment row the webhook has to create
\* carries booking_id = None, which payments.booking_id (nullable=False) refuses at
\* the flush: the transaction rolls back and the handler answers 500.
\* cancelled: the booking the failed branch cancelled (0: none); its lease is
\* deleted by release_lock(trip, seat, token=None) before the commit.
WebhookTransaction(avail, brows, prows, provider_ref, status_str) ==
    LET pay == FindPayment(prows, provider_ref)
        lcstatus == LcStatus(status_str)
        unchanged == [avail |-> avail, bookings |-> brows, payments |-> prows, cancelled |-> 0]
    IN  IF pay = 0
        THEN unchanged @@ [resp |-> Response(500, "IntegrityError", 0)]
        ELSE LET paid == [prows EXCEPT ![pay].status =
                            IF status_str = None THEN @ ELSE status_str[1]]
                 b == prows[pay].booking_id
             IN  IF lcstatus \in SuccessStatuses
                 THEN [avail |-> avail,
                       bookings |-> [brows EXCEPT ![b].status = "paid"],
                       payments |-> paid, cancelled |-> 0, resp |-> WebhookAck]
                 ELSE IF lcstatus \in FailedStatuses
                 THEN [avail |-> IncrementSeats(avail, brows[b].trip_id),
                       bookings |-> [brows EXCEPT ![b].status = "cancelled"],
                       payments |-> paid, cancelled |-> b, resp |-> WebhookAck]
                 ELSE [avail |-> avail, bookings |-> brows,
                       payments |-> paid, cancelled |-> 0, resp |-> WebhookAck]

\* --------------------------------------------------------------- actions
\* POST /bookings/locks/lock
create_lock(trip, seat, ttl) ==
    /\ LET key == <<trip, seat>>
           res == lock_seat(leases, key, nextToken, ttl)
       IN  /\ leases' = res.store
           /\ IF res.result = None
              THEN /\ last' = Answer(LockReq(trip, seat),
                                     Response(409, "Seat already locked", 0))
                   /\ acq' = [acq EXCEPT ![key].conflict = Min(@ + 1, MaxConflicts)]
                   /\ UNCHANGED nextToken
              ELSE /\ last' = Answer(LockReq(trip, seat),
                                     Response(200, "locked", res.result[1]))
                   /\ acq' = [acq EXCEPT ![key].ok = @ + 1]
                   /\ nextToken' = nextToken + 1
    /\ UNCHANGED <<markers, ledger, tasks, capacity,
                   confirms, confirmed_calls, restored, applied>>
    /\ UNCHANGED <<auth, notify>>

\* POST /bookings/locks/confirm, up to the await on the Lua script, whatever the
\* script call meets
ConfirmBooking(trip, seat, token, outcome) ==
    LET r == ConfirmReq(trip, seat, token)
        res == try_consume(leases, <<trip, seat>>, token, outcome)
    IN  /\ leases' = res.store
        /\ acq' = AcqReset(res.store, acq)
        /\ IF ~res.ok
           THEN /\ last' = Answer(r, Response(409, "Invalid or expired lock token", 0))
                /\ UNCHANGED <<tasks, confirms>>
           ELSE /\ tasks' = Suspend(tasks, Task(r, "confirm_txn"))
                /\ confirms' = [confirms EXCEPT ![token].won = @ + 1, ![token].key = <<trip, seat>>]
                /\ UNCHANGED last
        /\ UNCHANGED <<nextToken, markers, ledger, capacity,
                       confirmed_calls, restored, applied>>
        /\ UNCHANGED <<auth, notify>>

confirm_booking(trip, seat, token) == ConfirmBooking(trip, seat, token, "answered")

\* the same step while the script call raises
confirm_booking_store_error(trip, seat, token, outcome) ==
    /\ outcome \in StoreErrors
    /\ ConfirmBooking(trip, seat, token, outcome)

\* confirm_booking, the database transaction and the response
confirm_commit(t) ==
    /\ BagIn(t, tasks)
    /\ t.pc = "confirm_txn"
    /\ LET txn == ConfirmTransaction(seats_available, bookings, t.req.trip_id, t.req.seat_id)
           ok == txn.resp.status = 200
       IN  /\ seats_available' = txn.avail
           /\ bookings' = txn.rows
           /\ last' = Answer(t.req, txn.resp)
           /\ restored' = IF ok THEN Append(restored, 0) ELSE restored
           /\ confirms' = IF ok THEN [confirms EXCEPT ![t.req.token[1]].booked = @ + 1]
                          ELSE [confirms EXCEPT ![t.req.token[1]].conflict = @ + 1]
           /\ confirmed_calls' =
                 IF ok THEN [confirmed_calls EXCEPT ![<<t.req.trip_id, t.req.seat_id>>] = @ + 1]
                 ELSE confirmed_calls
    /\ tasks' = Resume(tasks, t)
    /\ UNCHANGED <<redis, payments, capacity, acq, applied>>
    /\ UNCHANGED <<auth, notify>>

\* POST /bookings/locks/release
release_lock_endpoint(trip, seat, token) ==
    /\ LET res == release_lock(leases, <<trip, seat>>, token)
       IN  /\ leases' = res.store
           /\ acq' = AcqReset(res.store, acq)
           /\ last' = Answer(ReleaseReq(trip, seat, token),
                             IF res.ok THEN Response(200, "released", 0)
                             ELSE Response(409, "Token mismatch or lock not owned", 0))
    /\ UNCHANGED <<nextToken, markers, ledger, tasks, capacity,
                   confirms, confirmed_calls, restored, applied>>
    /\ UNCHANGED <<auth, notify>>

\* POST /payments/initiate.  payments.booking_id is a foreign key: the insert of a
\* payment for a booking that does not exist raises IntegrityError.
initiate_payment(booking_id, provider) ==
    /\ LET provider_ref == RefNames[Len(payments) + 1]
           r == [InitiateReq(booking_id, provider) EXCEPT !.provider_ref = Some(provider_ref)]
       IN  IF booking_id \in 1..Len(bookings)
           THEN /\ payments' = Append(payments,
                                      Payment(booking_id, provider, provider_ref, "initiated"))
                /\ last' = Answer(r, Response(200, "initiated", Len(payments) + 1))
           ELSE /\ payments' = payments
                /\ last' = Answer(r, Response(500, "Unable to create payment record", 0))
    /\ UNCHANGED <<redis, seats_available, bookings, tasks, capacity, history>>
    /\ UNCHANGED <<auth, notify>>

\* POST /payments/webhook/{provider}, up to the await on EXISTS
payment_webhook(provider, headers, body) ==
    LET payload == body
        event_id == ExtractEventId(payload)
        n == Normalize(provider, payload)
        r == WebhookReq(provider, event_id, n.provider_ref, n.status_str)
    IN  /\ Lower(provider) \in ADAPTERS
        /\ IF ~verify_signature(Lower(provider), headers, body)
           THEN /\ last' = Answer(r, Response(400, "Invalid signature", 0))
                /\ UNCHANGED tasks
           ELSE IF event_id = None
           THEN /\ last' = Answer(r, Response(400, "Missing event id for idempotency", 0))
                /\ UNCHANGED tasks
           ELSE IF is_event_processed(markers, provider, event_id[1])
           THEN /\ last' = Answer(r, ReplayAck)
                /\ UNCHANGED tasks
           ELSE /\ tasks' = Suspend(tasks, Task(r, "webhook_mark"))
                /\ UNCHANGED last
        /\ UNCHANGED <<redis, ledger, capacity, history>>
        /\ UNCHANGED <<auth, notify>>

\* payment_webhook, the await on SET NX
webhook_mark(t) ==
    /\ BagIn(t, tasks)
    /\ t.pc = "webhook_mark"
    /\ LET res == mark_event_processed(markers, t.req.provider, t.req.event_id[1])
           key == <<t.req.provider, t.req.event_id[1]>>
       IN  /\ markers' = res.keys
           /\ IF ~res.added
              THEN /\ last' = Answer(t.req, RaceAck)
                   /\ tasks' = Resume(tasks, t)
                   /\ UNCHANGED applied
              ELSE /\ tasks' = Suspend(Resume(tasks, t), Task(t.req, "webhook_txn"))
                   /\ applied' = IF key \in DOMAIN applied THEN applied
                                 ELSE applied @@ (key :> 0)
                   /\ UNCHANGED last
    /\ UNCHANGED <<leases, nextToken, ledger, capacity,
                   acq, confirms, confirmed_calls, restored>>
    /\ UNCHANGED <<auth, notify>>

\* a release whose store error reaches the caller
ReleaseOrRaise(store, key, up) ==
    IF up THEN [raised |-> FALSE, store |-> [store EXCEPT ![key] = NoLease]]
    ELSE [raised |-> TRUE, store |-> store]

\* try: await release_lock(trip_id, seat_id, token=None) / except Exception: pass.
\* up: whether Redis answers; when it does not, redis_client.delete raises and the
\* handler swallows the exception
try_release(store, key, up) ==
    IF up THEN [raised |-> FALSE, store |-> release_lock(store, key, None).store]
    ELSE [raised |-> FALSE, store |-> store]

\* payment_webhook, the database transaction (with the best-effort release of the
\* cancelled booking's lease) and the response, Redis answering the release or not.
\* An exception that leaves the transaction block rolls it back and is answered 500.
WebhookCommit(t, up) ==
    /\ BagIn(t, tasks)
    /\ t.pc = "webhook_txn"
    /\ LET txn == WebhookTransaction(seats_available, bookings, payments,
                                     t.req.provider_ref, t.req.status)
           b == txn.cancelled
           key == <<t.req.provider, t.req.event_id[1]>>
           rel == IF b = 0 THEN [raised |-> FALSE, store |-> leases]
                  ELSE try_release(leases, <<bookings[b].trip_id, bookings[b].seat_id>>, up)
       IN  /\ (~up) => b # 0
           /\ leases' = rel.store
           /\ acq' = AcqReset(leases', acq)
           /\ applied' = [applied EXCEPT ![key] = @ + 1]
           /\ IF rel.raised
              THEN /\ UNCHANGED <<ledger, restored>>
                   /\ last' = Answer(t.req, Response(500, "ConnectionError", 0))
              ELSE /\ seats_available' = txn.avail
                   /\ bookings' = txn.bookings
                   /\ payments' = txn.payments
                   /\ restored' = IF b = 0 THEN restored ELSE [restored EXCEPT ![b] = @ + 1]
                   /\ last' = Answer(t.req, txn.resp)
    /\ tasks' = Resume(tasks, t)
    /\ UNCHANGED <<nextToken, markers, capacity, confirms, confirmed_calls>>
    /\ UNCHANGED <<auth, notify>>

webhook_commit(t) == WebhookCommit(t, TRUE)

\* the same step while Redis is unreachable, for a transaction that calls release_lock
webhook_commit_store_down(t) == WebhookCommit(t, FALSE)

\* keys stored without EX: time does not touch them
NeverExpire(store) == store

\* EX ttl: after one unit of time every ttl has run down by one, keys at 0 are gone
Expire(store) ==
    [k \in DOMAIN store |->
        IF store[k] = NoLease \/ store[k].ttl = 1 THEN NoLease
        ELSE [store[k] EXCEPT !.ttl = @ - 1]]

\* one unit of time passes in Redis
Tick ==
    /\ \E k \in Keys : leases[k] # NoLease
    /\ leases' = Expire(leases)
    /\ acq' = AcqReset(leases', acq)
    /\ UNCHANGED <<nextToken, markers, ledger, tasks, last, capacity,
                   confirms, confirmed_calls, restored, applied>>
    /\ UNCHANGED <<auth, notify>>

\* ----------------------------------------------------------- environment
\* tokens a client can present: the ones issued so far, and one never issued
KnownTokens == 0..(nextToken - 1)
OptionalTokens == {None} \cup {Some(x) : x \in KnownTokens}
Providers == {"mtn"}
EventIds == {"E1", "E2"}
\* references a provider reports on: the ones initiate handed out
KnownRefs == {RefNames[i] : i \in 1..Len(payments)}
StatusStrings == {"success", "FAILED"}

\* the body a provider posts for event e on reference r with status s
EventBody(provider, e, r, s) ==
    IF provider = "flutterwave"
    THEN [id |-> e, data |-> [tx_ref |-> r, status |-> s]]
    ELSE [id |-> e, data |-> [transaction_id |-> r, status |-> s]]

\* headers of a request signed with `secret`
Signed(secret, body) == ("x-signature" :> Hmac(secret, body))

\* a new request is taken up while a worker is not suspended
Free == BagCardinality(tasks) < Cardinality(Workers)

Init ==
    /\ leases = [k \in Keys |-> NoLease]
    /\ nextToken = 1
    /\ markers = {}
    /\ capacity \in [Trips -> 1..Cardinality(Seats)]
    /\ seats_available = capacity
    /\ bookings = <<>>
    /\ payments = <<>>
    /\ tasks = EmptyBag
    /\ last = Answer(NoReq, NoResponse)
    /\ acq = [k \in Keys |-> NoAcq]
    /\ confirms = [t \in 0..(MaxTokens + MaxLeaseTokens) |-> NoConfirm]
    /\ confirmed_calls = [k \in Keys |-> 0]
    /\ restored = <<>>
    /\ applied = EmptyDict
    /\ refresh_keys = EmptyDict
    /\ nextJti = 1
    /\ refreshed = EmptyDict
    /\ notifications = <<>>
    /\ notification_dlq = <<>>

\* every endpoint, any interleaving, the clients competing for one seat; the provider
\* reports two events.  The idempotency markers (ttl 24 h) outlive the behaviour.
ContestedKeys == {<<1, 1>>}
Next ==
    \/ \E k \in ContestedKeys, ttl \in 1..MaxTTL :
          nextToken <= MaxTokens /\ create_lock(k[1], k[2], ttl)
    \/ \E k \in ContestedKeys, t \in KnownTokens : Free /\ confirm_booking(k[1], k[2], t)
    \/ \E t \in BagToSet(tasks) : confirm_commit(t)
    \/ \E k \in ContestedKeys, t \in OptionalTokens : release_lock_endpoint(k[1], k[2], t)
    \/ \E b \in 1..(Len(bookings) + 1), provider \in Providers :
          Len(payments) < MaxPayments /\ initiate_payment(b, provider)
    \/ \E provider \in Providers, e \in EventIds, r \in KnownRefs, s \in StatusStrings :
          \E secret \in {Secret(Lower(provider)), "forged"} :
             LET body == EventBody(provider, e, r, s)
             IN  Free /\ payment_webhook(provider, Signed(secret, body), body)
    \/ \E t \in BagToSet(tasks) : webhook_mark(t)
    \/ \E t \in BagToSet(tasks) : webhook_commit(t)
    \/ Tick

Spec == Init /\ [][Next]_vars

\* the seat lock endpoints alone on every seat, with more tokens and longer leases
NextLease ==
    \/ \E k \in Keys, ttl \in 1..MaxLeaseTTL :
          nextToken <= MaxLeaseTokens /\ create_lock(k[1], k[2], ttl)
    \/ \E k \in Keys, t \in KnownTokens : Free /\ confirm_booking(k[1], k[2], t)
    \/ \E t \in BagToSet(tasks) : confirm_commit(t)
    \/ \E k \in Keys, t \in OptionalTokens : release_lock_endpoint(k[1], k[2], t)
    \/ Tick

SpecLease == Init /\ [][NextLease]_vars

\* leases that nobody consumes or releases: lock requests for the contested seat,
\* and time, which does not stop
NextExpiry ==
    \/ \E k \in ContestedKeys, ttl \in 1..MaxExpiryTTL :
          nextToken <= MaxExpiryTokens /\ create_lock(k[1], k[2], ttl)
    \/ Tick

SpecExpiry == Init /\ [][NextExpiry]_vars /\ WF_vars(Tick)

\* one booking and repeated payment attempts for it: the seat is locked and confirmed
\* once, payments are initiated for bookings that exist, the provider's webhooks are
\* authentic
NextRetry ==
    \/ \E k \in ContestedKeys, ttl \in 1..MaxTTL :
          nextToken <= MaxRetryTokens /\ create_lock(k[1], k[2], ttl)
    \/ \E k \in ContestedKeys, t \in KnownTokens : Free /\ confirm_booking(k[1], k[2], t)
    \/ \E t \in BagToSet(tasks) : confirm_commit(t)
    \/ \E b \in 1..Len(bookings), provider \in Providers :
          Len(payments) < MaxRetryPayments /\ initiate_payment(b, provider)
    \/ \E provider \in Providers, e \in EventIds, r \in KnownRefs, s \in StatusStrings :
          LET body == EventBody(provider, e, r, s)
          IN  Free /\ payment_webhook(provider, Signed(Secret(Lower(provider)), body), body)
    \/ \E t \in BagToSet(tasks) : webhook_mark(t)
    \/ \E t \in BagToSet(tasks) : webhook_commit(t)
    \/ Tick

SpecRetry == Init /\ [][NextRetry]_vars

\* what providers can post about one booking: events with and without an event id,
\* on a reference initiate handed out or on one it never saw, with a status the
\* handler knows or not
HookStatuses == {"success", "FAILED", "pending"}
HookRefs == KnownRefs \cup {"R0"}
\* a body without any id, the reference under data.transaction_id
IdlessBody(r, s) == [data |-> [transaction_id |-> r, status |-> s]]
\* a body without any id, the reference under data.tx_ref
RefOnlyBody(r, s) == [data |-> [tx_ref |-> r, status |-> s]]
HookBodies(provider) ==
    {EventBody(provider, "E1", r, s) : <<r, s>> \in HookRefs \X HookStatuses}
    \cup {IdlessBody(r, "FAILED") : r \in KnownRefs}
    \cup {RefOnlyBody(r, "FAILED") : r \in KnownRefs}

\* one booking, one payment, authentic webhooks of every shape
NextHook ==
    \/ \E k \in ContestedKeys, ttl \in 1..MaxTTL :
          nextToken <= MaxHookTokens /\ create_lock(k[1], k[2], ttl)
    \/ \E k \in ContestedKeys, t \in KnownTokens \ {0} : Free /\ confirm_booking(k[1], k[2], t)
    \/ \E t \in BagToSet(tasks) : confirm_commit(t)
    \/ \E b \in 1..Len(bookings), provider \in Providers :
          Len(payments) < MaxHookPayments /\ initiate_payment(b, provider)
    \/ \E provider \in Providers :
          \E body \in HookBodies(provider) :
             Free /\ payment_webhook(provider, Signed(Secret(Lower(provider)), body), body)
    \/ \E t \in BagToSet(tasks) : webhook_mark(t)
    \/ \E t \in BagToSet(tasks) : webhook_commit(t)
    \/ Tick

SpecHook == Init /\ [][NextHook]_vars

\* a booking, a later lease on its seat, the provider's events on its payment, and a
\* Redis that can be unreachable when the failed branch releases the lease
NextOutage ==
    \/ \E k \in ContestedKeys, ttl \in 1..MaxTTL :
          nextToken <= MaxTokens /\ create_lock(k[1], k[2], ttl)
    \/ \E k \in ContestedKeys, t \in KnownTokens \ {0} : Free /\ confirm_booking(k[1], k[2], t)
    \/ \E t \in BagToSet(tasks) : confirm_commit(t)
    \/ \E b \in 1..Len(bookings), provider \in Providers :
          Len(payments) < MaxPayments /\ initiate_payment(b, provider)
    \/ \E provider \in Providers, e \in EventIds, r \in KnownRefs, s \in StatusStrings :
          LET body == EventBody(provider, e, r, s)
          IN  Free /\ payment_webhook(provider, Signed(Secret(Lower(provider)), body), body)
    \/ \E t \in BagToSet(tasks) : webhook_mark(t)
    \/ \E t \in BagToSet(tasks) : webhook_commit(t)
    \/ \E t \in BagToSet(tasks) : webhook_commit_store_down(t)
    \/ \E k \in ContestedKeys, t \in KnownTokens \ {0}, outcome \in StoreErrors :
          Free /\ confirm_booking_store_error(k[1], k[2], t, outcome)
    \/ Tick

SpecOutage == Init /\ [][NextOutage]_vars

\* the providers whose secret is left unset
UnsetProviders == {a \in ADAPTERS : Secret(a) = ""}
\* what a sender who does not know a secret can attach: no signature, one made with
\* the empty key, one made with a key of its own, under either header name
HeaderChoices(body) ==
    {EmptyDict, Signed("", body), Signed("forged", body),
     ("x-flutterwave-signature" :> Hmac("", body))}

\* one booking paid through a provider with a secret or through one without;
\* webhooks of the first are authentic, webhooks of the second carry whatever a
\* sender can attach
NextUnset ==
    \/ \E k \in ContestedKeys, ttl \in 1..MaxTTL :
          nextToken <= MaxHookTokens /\ create_lock(k[1], k[2], ttl)
    \/ \E k \in ContestedKeys, t \in KnownTokens \ {0} : Free /\ confirm_booking(k[1], k[2], t)
    \/ \E t \in BagToSet(tasks) : confirm_commit(t)
    \/ \E b \in 1..Len(bookings), provider \in Providers \cup UnsetProviders :
          Len(payments) < MaxHookPayments /\ initiate_payment(b, provider)
    \/ \E provider \in Providers, r \in KnownRefs, s \in StatusStrings :
          LET body == EventBody(provider, "E1", r, s)
          IN  Free /\ payment_webhook(provider, Signed(Secret(Lower(provider)), body), body)
    \/ \E provider \in UnsetProviders, r \in KnownRefs, s \in StatusStrings :
          LET body == EventBody(provider, "E2", r, s)
          IN  \E headers \in HeaderChoices(body) : Free /\ payment_webhook(provider, headers, body)
    \/ \E t \in BagToSet(tasks) : webhook_mark(t)
    \/ \E t \in BagToSet(tasks) : webhook_commit(t)
    \/ Tick

SpecUnset == Init /\ [][NextUnset]_vars

\* ------------------------------------------------------------ notifications
\* @celery_app.task(bind=True, autoretry_for=(Exception,), ..., max_retries=3)
max_retries == 3
Channels == {"email", "sms"}
\* what one run of _do() ends with: the provider's result, or the exception of a
\* send that fails (render finds no template: RuntimeError)
SendResults == {"sent", "RuntimeError"}

\* a queued task message: request.retries starts at 0
Notification(channel) == [channel |-> channel, retries |-> 0, state |-> "PENDING"]

\* Task.retry(exc=exc) of Celery: the Retry exception (the message is queued again)
\* while request.retries < max_retries, otherwise exc itself is raised
Retry(retries, exc) == IF retries < max_retries THEN "Retry" ELSE exc

\* the body of send_notification_task for one run of _do(): the exception that
\* leaves it ("none": it returns) and whether the branch that pushes to the DLQ ran.
\* `except self.MaxRetriesExceededError` guards the try block only: what self.retry
\* raises inside `except Exception` is not caught by it.
RunTask(retries, result) ==
    IF result = "sent" THEN [raised |-> "none", dlq |-> FALSE]
    ELSE IF result = "MaxRetriesExceededError" THEN [raised |-> result, dlq |-> TRUE]
    ELSE [raised |-> Retry(retries, result), dlq |-> FALSE]

\* autoretry_for=(Exception,): Retry passes, any other exception goes to Task.retry
AutoRetry(retries, raised) ==
    IF raised \in {"none", "Retry"} THEN raised ELSE Retry(retries, raised)

\* send_notification_task.delay(channel, ...)
send_notification_delay(channel) ==
    /\ notifications' = Append(notifications, Notification(channel))
    /\ UNCHANGED <<redis, ledger, tasks, last, capacity, history, auth, notification_dlq>>

\* a worker runs task n once; result is what _do() ends with
send_notification_task(n, result) ==
    /\ n \in DOMAIN notifications
    /\ notifications[n].state \in {"PENDING", "RETRY"}
    /\ LET run == RunTask(notifications[n].retries, result)
           out == AutoRetry(notifications[n].retries, run.raised)
       IN  /\ notification_dlq' = IF run.dlq THEN Append(notification_dlq, n)
                                  ELSE notification_dlq
           /\ notifications' =
                 [notifications EXCEPT ![n] =
                     CASE out = "none" -> [@ EXCEPT !.state = "SUCCESS"]
                       [] out = "Retry" -> [@ EXCEPT !.state = "RETRY", !.retries = @ + 1]
                       [] OTHER -> [@ EXCEPT !.state = "FAILURE"]]
    /\ UNCHANGED <<redis, ledger, tasks, last, capacity, history, auth>>

\* notifications queued and run, each send failing or not
NextNotify ==
    \/ \E channel \in Channels :
          Len(notifications) < MaxNotifications /\ send_notification_delay(channel)
    \/ \E n \in DOMAIN notifications, result \in SendResults :
          send_notification_task(n, result)

SpecNotify == Init /\ [][NextNotify]_vars

\* ================================================================ properties
ActiveStatuses == {"confirmed", "paid"}
RowsOf(k) == {i \in 1..Len(bookings) : <<bookings[i].trip_id, bookings[i].seat_id>> = k}
LastKey == <<last.trip_id, last.seat_id>>
Expired409 == Response(409, "Invalid or expired lock token", 0)
NoSeats409 == Response(409, "No seats available", 0)
Booked409 == Response(409, "Seat already booked", 0)
InFlight(pcs) == {t \in BagToSet(tasks) : t.pc \in pcs}
\* tasks of the bag, copies counted
Copies(ts) == IF ts = {} THEN 0
              ELSE LET f[S \in SUBSET ts] ==
                         IF S = {} THEN 0
                         ELSE LET x == CHOOSE y \in S : TRUE
                              IN  CopiesIn(x, tasks) + f[S \ {x}]
                   IN  f[ts]

\* ----------------------------------------------------------- refresh tokens
Users == {1}
\* jwt.encode(payload, settings.SECRET_KEY): the claims and the key that signed them
Jwt(type, user_id, jti, key) == [type |-> type, sub |-> user_id, jti |-> jti, key |-> key]
\* create_access_token: no jti
AccessToken(user_id) == Jwt("access", user_id, 0, "SECRET_KEY")
RefreshToken(user_id, jti) == Jwt("refresh", user_id, jti, "SECRET_KEY")

\* SET refresh:{jti} user_id EX ...
SetRefreshKey(keys, jti, user_id) ==
    [j \in DOMAIN keys \cup {jti} |-> IF j = jti THEN user_id ELSE keys[j]]
\* DEL refresh:{jti}
DeleteRefreshKey(keys, jti) == [j \in DOMAIN keys \ {jti} |-> keys[j]]

\* verify_refresh_token, on the value GET returned: TRUE when it returns
\* (user_id, jti), FALSE when it raises JWTError
RefreshTokenVerified(token, val) ==
    /\ token.key = "SECRET_KEY"
    /\ token.type = "refresh"
    /\ val # None
    /\ val[1] = token.sub

RefreshReq(token) == [NoReq EXCEPT !.op = "refresh", !.token = Some(token)]
LogoutReq(token) == [NoReq EXCEPT !.op = "logout", !.token = Some(token)]

\* POST /login for a user whose password verifies: create_refresh_token
login(user_id) ==
    /\ refresh_keys' = SetRefreshKey(refresh_keys, nextJti, user_id)
    /\ nextJti' = nextJti + 1
    /\ refreshed' = refreshed @@ (RefreshToken(user_id, nextJti) :> 0)
    /\ last' = Answer([NoReq EXCEPT !.op = "login"], Response(200, "logged in", nextJti))
    /\ UNCHANGED <<redis, ledger, tasks, capacity, history, notify>>

\* POST /refresh, up to the await on GET in verify_refresh_token
refresh(token) ==
    /\ IF ~RefreshTokenVerified(token, Get(refresh_keys, token.jti))
       THEN /\ last' = Answer(RefreshReq(token), Response(401, "Invalid refresh token", 0))
            /\ UNCHANGED tasks
       ELSE /\ tasks' = Suspend(tasks, Task(RefreshReq(token), "refresh_delete"))
            /\ UNCHANGED last
    /\ UNCHANGED <<redis, ledger, capacity, history, auth, notify>>

\* refresh, rotate_refresh_token: the await on DEL of the old key
refresh_delete(t) ==
    /\ BagIn(t, tasks)
    /\ t.pc = "refresh_delete"
    /\ refresh_keys' = DeleteRefreshKey(refresh_keys, t.req.token[1].jti)
    /\ tasks' = Suspend(Resume(tasks, t), Task(t.req, "refresh_set"))
    /\ UNCHANGED <<redis, ledger, last, capacity, history, nextJti, refreshed, notify>>

\* refresh, create_refresh_token: the await on SET of the new key, and the response
refresh_set(t) ==
    /\ BagIn(t, tasks)
    /\ t.pc = "refresh_set"
    /\ refresh_keys' = SetRefreshKey(refresh_keys, nextJti, t.req.token[1].sub)
    /\ nextJti' = nextJti + 1
    /\ refreshed' = [refreshed EXCEPT ![t.req.token[1]] = @ + 1]
                       @@ (RefreshToken(t.req.token[1].sub, nextJti) :> 0)
    /\ last' = Answer(t.req, Response(200, "refreshed", nextJti))
    /\ tasks' = Resume(tasks, t)
    /\ UNCHANGED <<redis, ledger, capacity, history, notify>>

\* POST /logout, up to the await on GET in verify_refresh_token
logout(token) ==
    /\ IF ~RefreshTokenVerified(token, Get(refresh_keys, token.jti))
       THEN /\ last' = Answer(LogoutReq(token), Response(204, "already invalid", 0))
            /\ UNCHANGED tasks
       ELSE /\ tasks' = Suspend(tasks, Task(LogoutReq(token), "logout_delete"))
            /\ UNCHANGED last
    /\ UNCHANGED <<redis, ledger, capacity, history, auth, notify>>

\* logout, revoke_refresh_token: the await on DEL, and the response
logout_delete(t) ==
    /\ BagIn(t, tasks)
    /\ t.pc = "logout_delete"
    /\ refresh_keys' = DeleteRefreshKey(refresh_keys, t.req.token[1].jti)
    /\ last' = Answer(t.req, Response(204, "revoked", 0))
    /\ tasks' = Resume(tasks, t)
    /\ UNCHANGED <<redis, ledger, capacity, history, nextJti, refreshed, notify>>

\* tokens a client can present: the refresh tokens issued so far, an access token,
\* and a refresh token signed with another key
PresentedTokens ==
    DOMAIN refreshed \cup {AccessToken(u) : u \in Users}
                     \cup {Jwt("refresh", u, 1, "forged") : u \in Users}

\* logins, and refresh and logout calls in any interleaving; the refresh keys
\* (ttl 30 days) outlive the behaviour
NextAuth ==
    \/ \E u \in Users : nextJti <= MaxJtis /\ login(u)
    \/ \E token \in PresentedTokens :
          /\ Free
          /\ nextJti + Copies(InFlight({"refresh_delete", "refresh_set"})) <= MaxJtis
          /\ refresh(token)
    \/ \E t \in BagToSet(tasks) : refresh_delete(t)
    \/ \E t \in BagToSet(tasks) : refresh_set(t)
    \/ \E token \in PresentedTokens : Free /\ logout(token)
    \/ \E t \in BagToSet(tasks) : logout_delete(t)

SpecAuth == Init /\ [][NextAuth]_vars

\* C1: in every reachable state each (trip, seat) has at most one booking whose
\* status is confirmed or paid
C1Theorem ==
    \A k \in Keys : Cardinality({i \in RowsOf(k) : bookings[i].status \in ActiveStatuses}) <= 1

\* a confirm holding a valid lease was refused because the seat has an active booking
C1Witness ==
    /\ last.op = "confirm"
    /\ last.resp = Booked409
    /\ \E i \in RowsOf(LastKey) : bookings[i].status \in ActiveStatuses

\* C2 as claimed: once confirm calls have presented one valid lease token for one
\* (trip, seat), one consuming it and another finding it gone, and all have been
\* answered, exactly one of them has returned a booking
C2Claim ==
    (/\ last.op = "confirm"
     /\ last.resp = Expired409
     /\ last.token # None
     /\ confirms[last.token[1]].won >= 1
     /\ confirms[last.token[1]].key = LastKey
     /\ \A t \in InFlight({"confirm_txn"}) : t.req.token # last.token)
    => confirms[last.token[1]].booked = 1

\* C2 as amended: of the confirm calls presenting one lease token at most one consumes
\* the lease and only that one is answered otherwise than Expired: with the one booking
\* row created, or with Conflict, and that only when the trip has no seat available or
\* the (trip, seat) already has a booking row
C2Theorem ==
    /\ \A tok \in DOMAIN confirms :
          /\ confirms[tok].won <= 1
          /\ confirms[tok].booked + confirms[tok].conflict
                + Copies({t \in InFlight({"confirm_txn"}) : t.req.token = Some(tok)})
             = confirms[tok].won
    /\ (last.op = "confirm" /\ last.resp = NoSeats409) => seats_available[last.trip_id] = 0
    /\ (last.op = "confirm" /\ last.resp = Booked409) => RowsOf(LastKey) # {}
    /\ (last.op = "confirm" /\ last.resp.status = 200)
          => /\ confirms[last.token[1]].booked = 1
             /\ bookings[last.resp.id].status = "confirmed"
             /\ RowsOf(LastKey) = {last.resp.id}

\* a token has returned a booking and a further confirm presenting it for the same
\* (trip, seat) was answered Expired
C2Witness ==
    /\ last.op = "confirm"
    /\ last.resp = Expired409
    /\ last.token # None
    /\ confirms[last.token[1]].booked = 1
    /\ confirms[last.token[1]].key = LastKey

\* C3: of the lock requests made for a key since the key was last absent exactly one
\* was granted and all others were refused, and the key holds a lease exactly while
\* a grant is outstanding
C3Theorem ==
    \A k \in Keys :
       /\ acq[k].ok <= 1
       /\ acq[k].conflict > 0 => acq[k].ok = 1
       /\ acq[k].ok = 1 <=> leases[k] # NoLease

\* three lock requests met on one key: one granted, two refused
C3Witness == \E k \in Keys : acq[k].ok = 1 /\ acq[k].conflict = 2

\* C4: a confirm whose token is not the one stored under the key (or that finds no
\* lease) is answered Expired and leaves the lease store and the ledger as they were
C4Theorem ==
    [][\A k \in Keys, tok \in 0..MaxLeaseTokens :
          (/\ confirm_booking(k[1], k[2], tok)
           /\ (leases[k] = NoLease \/ leases[k].token # tok))
          => /\ last'.op = "confirm" /\ last'.resp = Expired409
             /\ UNCHANGED <<leases, ledger, tasks>>]_vars

\* a confirm presenting the token of an earlier, expired lease was refused while the
\* key holds the lease issued to a later caller
C4Witness ==
    /\ last.op = "confirm"
    /\ last.resp = Expired409
    /\ last.token # None
    /\ leases[LastKey] # NoLease
    /\ last.token[1] > 0
    /\ last.token[1] < leases[LastKey].token

\* C5: for each (trip, seat) at most one confirm call is ever answered with a booking
C5Theorem == \A k \in Keys : confirmed_calls[k] <= 1

\* the booking of the seat was cancelled, and a later holder of a lease on it was
\* refused by the constraint
C5Witness ==
    /\ last.op = "confirm"
    /\ last.resp = Booked409
    /\ confirmed_calls[LastKey] = 1
    /\ \A i \in RowsOf(LastKey) : bookings[i].status = "cancelled"

Sum(f) == LET g[S \in SUBSET DOMAIN f] ==
                 IF S = {} THEN 0
                 ELSE LET x == CHOOSE y \in S : TRUE IN f[x] + g[S \ {x}]
          IN  g[DOMAIN f]

Winners(key) ==
    Copies({t \in InFlight({"webhook_txn"}) : <<t.req.provider, t.req.event_id[1]>> = key})
    + (IF key \in DOMAIN applied THEN applied[key] ELSE 0)

C10Theorem ==
    /\ \A key \in markers : Winners(key) = 1
    /\ \A key \in (Providers \X EventIds) \ markers : Winners(key) = 0

\* two deliveries of one event passed EXISTS together; one won the marker, the other
\* was answered Ack by the set-if-absent
C10Witness ==
    /\ last.op = "webhook"
    /\ last.resp = RaceAck
    /\ \E key \in markers : Winners(key) = 1

\* C11: seats_available of a trip is never negative, however many confirms for
\* distinct seats of the trip are in flight together
C11Theorem == \A trip \in Trips : seats_available[trip] >= 0

\* the trip's seats are sold out, one seat booked, and a confirm holding a valid lease
\* on another seat was refused by the conditional decrement
C11Witness ==
    /\ last.op = "confirm"
    /\ last.resp = NoSeats409
    /\ seats_available[last.trip_id] = 0
    /\ \E i \in 1..Len(bookings) :
          bookings[i].trip_id = last.trip_id /\ bookings[i].seat_id # last.seat_id

\* C12: a lease that is neither consumed nor released is gone once its ttl has run
\* down, one unit per unit of time from the ttl it was granted with; a lock request
\* that finds the key absent is granted with a token never issued before
C12Theorem ==
    /\ \A k \in Keys, tok \in 1..MaxExpiryTokens :
          (leases[k] # NoLease /\ leases[k].token = tok) ~> (leases[k] = NoLease)
    /\ [][\A k \in Keys :
             /\ (Tick /\ leases[k] # NoLease)
                   => leases'[k] = IF leases[k].ttl = 1 THEN NoLease
                                   ELSE [leases[k] EXCEPT !.ttl = @ - 1]
             /\ \A ttl \in 1..MaxExpiryTTL :
                   (create_lock(k[1], k[2], ttl) /\ leases[k] = NoLease)
                   => /\ last'.resp.status = 200
                      /\ last'.resp.id \notin KnownTokens
                      /\ leases'[k] = [token |-> last'.resp.id, ttl |-> ttl]]_vars

\* the first lease of the seat expired and a second lock request was granted: the
\* seat holds the second token
C12Witness ==
    /\ last.op = "lock"
    /\ last.resp.status = 200
    /\ last.resp.id = 2
    /\ leases[LastKey] # NoLease
    /\ leases[LastKey].token = 2

\* the booking a webhook's external reference points at: the booking_id of the
\* payment rows carrying that reference
BookingsOf(provider_ref) ==
    {payments[i].booking_id : i \in {j \in 1..Len(payments) :
                                        Some(payments[j].provider_ref) = provider_ref}}
KeyOf(b) == <<bookings[b].trip_id, bookings[b].seat_id>>

C14Theorem ==
    /\ [](\A key \in markers : Winners(key) <= 1)
    /\ [][\A t \in BagToSet(tasks) :
             (webhook_commit(t) /\ t.req.status = Some("success"))
             => /\ \A b \in BookingsOf(t.req.provider_ref) : bookings'[b].status = "paid"
                /\ UNCHANGED <<seats_available, leases>>]_vars

\* the only event delivered is a success event: the booking is paid, a further
\* delivery was answered as a replay, and the seat is still taken
C14Witness ==
    /\ last.op = "webhook"
    /\ last.resp = ReplayAck
    /\ Cardinality(markers) = 1
    /\ \E b \in DOMAIN bookings :
          /\ bookings[b].status = "paid"
          /\ restored[b] = 0
          /\ seats_available[bookings[b].trip_id] = capacity[bookings[b].trip_id] - 1

C20Theorem ==
    [][\A provider \in Providers, e \in EventIds, r \in KnownRefs, st \in StatusStrings :
          LET body == EventBody(provider, e, r, st)
          IN  payment_webhook(provider, Signed("forged", body), body)
              => /\ last'.resp = Response(400, "Invalid signature", 0)
                 /\ UNCHANGED <<redis, ledger, tasks>>]_vars

\* a forged webhook on an initiated payment was refused: no marker, the payment
\* still initiated, the booking still confirmed
C20Witness ==
    /\ last.op = "webhook"
    /\ last.resp = Response(400, "Invalid signature", 0)
    /\ markers = {}
    /\ \E i \in DOMAIN payments :
          /\ payments[i].status = "initiated"
          /\ bookings[payments[i].booking_id].status = "confirmed"

C17Theorem ==
    [][\A k \in Keys, tok \in 0..MaxLeaseTokens :
          (/\ confirm_booking(k[1], k[2], tok)
           /\ (leases[k] = NoLease \/ leases[k].token # tok))
          => /\ last'.resp = Expired409
             /\ UNCHANGED <<seats_available, bookings, payments>>
             /\ \A t \in BagToSet(tasks') : CopiesIn(t, tasks') = CopiesIn(t, tasks)]_vars

\* a confirm with a token that was never issued, on a seat without a lease, was
\* refused and the ledger is as it was created
C17Witness ==
    /\ last.op = "confirm"
    /\ last.resp = Expired409
    /\ last.token = Some(0)
    /\ leases[LastKey] = NoLease
    /\ bookings = <<>>
    /\ seats_available = capacity

\* C18: the transaction of a confirm that finds seats_available of its trip at 0 is
\* answered Conflict "No seats available", inserts no booking and leaves
\* seats_available at 0
C18Theorem ==
    [][\A t \in BagToSet(tasks) :
          (confirm_commit(t) /\ seats_available[t.req.trip_id] = 0)
          => /\ last'.resp = NoSeats409
             /\ bookings' = bookings
             /\ seats_available'[t.req.trip_id] = 0]_vars

\* a confirm consumed its lease and was refused for lack of seats: the seat has no
\* booking row and no lease
C18Witness ==
    /\ last.op = "confirm"
    /\ last.resp = NoSeats409
    /\ seats_available[last.trip_id] = 0
    /\ RowsOf(LastKey) = {}
    /\ leases[LastKey] = NoLease

\* the rows of a trip
TripRows(trip) == {i \in 1..Len(bookings) : bookings[i].trip_id = trip}

\* C19: decrement and insert commit together or not at all: in every state
\* seats_available of a trip is its initial value, less one per booking row of the
\* trip, plus the restorations of failed payments; a confirm refused as "already
\* booked" left the decrement undone
C19Theorem ==
    /\ \A trip \in Trips :
          seats_available[trip]
             = capacity[trip] - Cardinality(TripRows(trip))
               + Sum([b \in TripRows(trip) |-> restored[b]])
    /\ (last.op = "confirm" /\ last.resp = Booked409) => RowsOf(LastKey) # {}

\* a confirm found a seat available, was refused by the uniqueness constraint, and
\* the seat it had decremented is available again
C19Witness ==
    /\ last.op = "confirm"
    /\ last.resp = Booked409
    /\ seats_available[last.trip_id] > 0
    /\ Cardinality(RowsOf(LastKey)) = 1
    /\ seats_available[last.trip_id] = capacity[last.trip_id] - 1

\* C24: release without a token, applied to any reachable lease store and key,
\* reports success and leaves the key absent and the other keys as they were, also
\* when the key was absent; applied again it reports success and changes nothing.
\* The endpoint never refuses a release without token, and the key is absent after it.
C24Theorem ==
    /\ \A k \in Keys :
          LET once == release_lock(leases, k, None)
              twice == release_lock(once.store, k, None)
          IN  /\ once.ok
              /\ once.store = [leases EXCEPT ![k] = NoLease]
              /\ twice.ok
              /\ twice.store = once.store
    /\ (last.op = "release" /\ last.token = None)
          => last.resp = Response(200, "released", 0) /\ leases[LastKey] = NoLease

\* an administrative release was answered "released" on a seat that was booked with
\* the only token issued: the lease had been consumed, the key was absent
C24Witness ==
    /\ last.op = "release"
    /\ last.token = None
    /\ last.resp = Response(200, "released", 0)
    /\ nextToken = 2
    /\ RowsOf(LastKey) # {}

C30Theorem ==
    [][\A k \in Keys :
          (leases[k] # NoLease /\ leases'[k] # NoLease)
          => /\ leases'[k].token = leases[k].token
             /\ leases'[k].ttl <= leases[k].ttl]_vars

\* the seat holds its second lease, created after the first was gone, and a lock
\* request that met it was refused
C30Witness ==
    /\ last.op = "lock"
    /\ last.resp.status = 409
    /\ leases[LastKey] # NoLease
    /\ leases[LastKey].token = 2
    /\ acq[LastKey].conflict >= 1

\* C21 as claimed: an authentic webhook whose body carries no event id is answered
\* 400; no marker is written, no request goes on to the transaction, and no
\* payment, booking or trip changes
C21Claim ==
    [][\A provider \in Providers, r \in KnownRefs :
          \A body \in {IdlessBody(r, "FAILED"), RefOnlyBody(r, "FAILED")} :
             payment_webhook(provider, Signed(Secret(Lower(provider)), body), body)
             => /\ last'.resp = Response(400, "Missing event id for idempotency", 0)
                /\ UNCHANGED <<redis, ledger, tasks>>]_vars

\* C22: the transaction of an event whose status is neither a success nor a failure
\* changes no booking, no seats_available and no lease
C22Theorem ==
    [][\A t \in BagToSet(tasks) :
          (webhook_commit(t) /\ t.req.status = Some("pending"))
          => UNCHANGED <<bookings, seats_available, leases>>]_vars

\* a "pending" event was applied to the payment of a confirmed booking: the payment
\* carries the status, the booking is still confirmed and holds its seat
C22Witness ==
    /\ last.op = "webhook"
    /\ last.resp = WebhookAck
    /\ \E i \in DOMAIN payments :
          /\ payments[i].status = "pending"
          /\ bookings[payments[i].booking_id].status = "confirmed"
          /\ restored[payments[i].booking_id] = 0
    /\ seats_available[1] = capacity[1] - 1

\* C23 as claimed: every webhook that is not rejected (400) is answered Ack
C23Claim ==
    (last.op = "webhook" /\ last.resp.status # 400) => IsAck(last.resp)

\* C26 as claimed: the transaction of an event on a reference without payment row
\* adds a payment row without booking that carries the reference and the event's
\* status, is answered Ack, and changes no booking and no seats_available
C26Claim ==
    [][\A t \in BagToSet(tasks) :
          (/\ webhook_commit(t)
           /\ t.req.provider_ref = Some("R0")
           /\ \A i \in DOMAIN payments : payments[i].provider_ref # "R0")
          => /\ last'.resp = WebhookAck
             /\ Len(payments') = Len(payments) + 1
             /\ payments'[Len(payments')].provider_ref = "R0"
             /\ Some(payments'[Len(payments')].status) = t.req.status
             /\ UNCHANGED <<bookings, seats_available>>]_vars

C27Theorem ==
    [][\A b \in 1..Len(bookings), provider \in Providers :
          initiate_payment(b, provider)
          => /\ last'.resp = Response(200, "initiated", Len(payments) + 1)
             /\ Len(payments') = Len(payments) + 1
             /\ \A i \in 1..Len(payments) :
                   /\ payments'[i] = payments[i]
                   /\ payments[i].provider_ref # payments'[Len(payments')].provider_ref
             /\ payments'[Len(payments')].booking_id = b
             /\ payments'[Len(payments')].provider = provider
             /\ payments'[Len(payments')].status = "initiated"
             /\ UNCHANGED <<bookings, seats_available, redis>>]_vars

\* a payment was initiated for a confirmed booking: the row is there, the booking
\* is still confirmed and holds its seat
C27Witness ==
    /\ last.op = "initiate"
    /\ last.resp.status = 200
    /\ payments[last.resp.id].status = "initiated"
    /\ bookings[payments[last.resp.id].booking_id].status = "confirmed"
    /\ seats_available[1] = capacity[1] - 1

\* C28: a step that changes seats_available of a trip is the transaction of a
\* confirm answered 200, changing it by -1, or the transaction of a failed event
\* that cancels a booking of the trip, changing it by +1
C28Theorem ==
    [][\A trip \in Trips :
          seats_available'[trip] # seats_available[trip]
          => \/ \E t \in BagToSet(tasks) :
                   /\ confirm_commit(t)
                   /\ t.req.trip_id = trip
                   /\ last'.resp.status = 200
                   /\ seats_available'[trip] = seats_available[trip] - 1
             \/ \E t \in BagToSet(tasks) :
                   /\ webhook_commit(t)
                   /\ t.req.status = Some("FAILED")
                   /\ \E b \in BookingsOf(t.req.provider_ref) :
                         bookings[b].trip_id = trip /\ bookings'[b].status = "cancelled"
                   /\ seats_available'[trip] = seats_available[trip] + 1]_vars

\* the seat was taken by a confirm and a success event was applied since: the
\* booking is paid and seats_available still counts the seat as taken
C28Witness ==
    /\ last.op = "webhook"
    /\ last.resp = WebhookAck
    /\ \E b \in DOMAIN bookings : bookings[b].status = "paid" /\ restored[b] = 0
    /\ seats_available[1] = capacity[1] - 1
    /\ leases[<<1, 1>>] # NoLease

MarkerOf(r) == <<r.provider, r.event_id[1]>>

\* C32: a marker, once written, stays; the transaction of an event that rolls back
\* (answered 500) leaves the marker and changes no payment, booking or trip; the
\* transaction of an event runs at most once; and every later delivery of a marked
\* event, at the EXISTS or at the set-if-absent, is answered Ack without starting
\* a transaction and without changing a payment, booking or trip
C32Theorem ==
    /\ [][markers \subseteq markers']_vars
    /\ [][\A t \in BagToSet(tasks) :
             webhook_commit(t)
             => /\ MarkerOf(t.req) \in markers'
                /\ applied[MarkerOf(t.req)] = 0
                /\ last'.resp.status = 500 => UNCHANGED ledger]_vars
    /\ [][\A provider \in Providers : \A body \in HookBodies(provider) :
             (/\ payment_webhook(provider, Signed(Secret(Lower(provider)), body), body)
              /\ ExtractEventId(body) # None
              /\ <<provider, ExtractEventId(body)[1]>> \in markers)
             => /\ last'.resp = ReplayAck
                /\ UNCHANGED <<redis, ledger, tasks>>]_vars
    /\ [][\A t \in BagToSet(tasks) :
             (webhook_mark(t) /\ MarkerOf(t.req) \in markers)
             => /\ last'.resp = RaceAck
                /\ InFlight({"webhook_txn"})' = InFlight({"webhook_txn"})
                /\ UNCHANGED <<redis, ledger>>]_vars

\* the transaction of the only event delivered rolled back: the marker is set, the
\* payment is still initiated and the booking confirmed, and a further delivery of
\* the event was acknowledged as a replay
C32Witness ==
    /\ last.op = "webhook"
    /\ last.resp = ReplayAck
    /\ tasks = EmptyBag
    /\ \E key \in markers : applied[key] = 1
    /\ Len(payments) = 1
    /\ payments[1].status = "initiated"
    /\ bookings[payments[1].booking_id].status = "confirmed"
    /\ seats_available[1] = capacity[1] - 1

\* C33 as claimed: once a confirm is answered Conflict, (trip, seat) holds no lease
C33Claim ==
    (last.op = "confirm" /\ last.resp \in {NoSeats409, Booked409})
    => leases[LastKey] = NoLease

\* C33 as amended: the transaction of a confirm leaves the lease store as the consume
\* left it; once a confirm is answered Conflict, (trip, seat) holds no lease or a
\* lease another client acquired after the consume; a retry with the same token is
\* answered Expired and changes nothing; a lock request that finds the key absent
\* is granted
C33Theorem ==
    /\ [][\A t \in BagToSet(tasks) : confirm_commit(t) => leases' = leases]_vars
    /\ []((last.op = "confirm" /\ last.resp \in {NoSeats409, Booked409})
            => \/ leases[LastKey] = NoLease
               \/ leases[LastKey].token > last.token[1])
    /\ [][\A k \in Keys, tok \in 1..MaxLeaseTokens :
             (confirm_booking(k[1], k[2], tok) /\ confirms[tok].conflict >= 1)
             => /\ last'.resp = Expired409
                /\ UNCHANGED <<leases, ledger>>]_vars
    /\ [][\A k \in Keys, ttl \in 1..MaxLeaseTTL :
             (create_lock(k[1], k[2], ttl) /\ leases[k] = NoLease)
             => /\ last'.resp.status = 200
                /\ leases'[k] = [token |-> last'.resp.id, ttl |-> ttl]]_vars

\* a confirm was answered Conflict, and the retry with its token was answered
\* Expired: the seat holds no lease
C33Witness ==
    /\ last.op = "confirm"
    /\ last.resp = Expired409
    /\ last.token # None
    /\ confirms[last.token[1]].conflict = 1
    /\ confirms[last.token[1]].key = LastKey
    /\ leases[LastKey] = NoLease

C35Claim == \A key \in markers : key[2] \notin KnownRefs

\* C36: a confirm whose script call raises, the script run or not, is answered
\* Expired, starts no transaction and changes no booking, payment or trip; and a
\* booking row is inserted only by the transaction of a confirm whose
\* compare-and-delete reported success
C36Theorem ==
    /\ [][\A k \in Keys, tok \in 1..MaxTokens, outcome \in StoreErrors :
             confirm_booking_store_error(k[1], k[2], tok, outcome)
             => /\ last'.op = "confirm" /\ last'.resp = Expired409
                /\ tasks' = tasks
                /\ UNCHANGED <<ledger, confirms>>]_vars
    /\ [][Len(bookings') > Len(bookings)
          => \E t \in BagToSet(tasks) :
                /\ confirm_commit(t)
                /\ confirms[t.req.token[1]].won = 1
                /\ confirms[t.req.token[1]].booked = 0]_vars

\* a confirm presenting the token of the stored lease was answered Expired because
\* Redis was unreachable: the lease is still stored and nothing was booked
C36Witness ==
    /\ last.op = "confirm"
    /\ last.resp = Expired409
    /\ last.token # None
    /\ leases[LastKey] # NoLease
    /\ leases[LastKey].token = last.token[1]
    /\ confirms[last.token[1]].won = 0
    /\ bookings = <<>>

\* the entries of the dead-letter queue for task n
DlqEntries(n) == {i \in 1..Len(notification_dlq) : notification_dlq[i] = n}

\* C37 as claimed: a task is retried at most max_retries times, and once it has
\* failed for good its notification is in the dead-letter queue exactly once
C37Claim ==
    \A n \in DOMAIN notifications :
       /\ notifications[n].retries <= max_retries
       /\ notifications[n].state = "FAILURE" => Cardinality(DlqEntries(n)) = 1

\* C38 as claimed: of the refresh calls presenting one refresh token at most one is
\* answered with new tokens
C38Claim == \A token \in DOMAIN refreshed : refreshed[token] <= 1

\* C39: for a provider whose secret is unset, verify_signature is False for every
\* pair of headers and body, the signature made with the empty key included, and
\* every webhook of that provider is answered 400 and changes neither the markers,
\* nor the leases, nor any payment, booking or trip
C39Theorem ==
    /\ [](\A provider \in UnsetProviders, r \in KnownRefs, st \in StatusStrings :
             LET body == EventBody(provider, "E2", r, st)
             IN  \A headers \in HeaderChoices(body) :
                    ~verify_signature(provider, headers, body))
    /\ [][\A provider \in UnsetProviders, r \in KnownRefs, st \in StatusStrings :
             LET body == EventBody(provider, "E2", r, st)
             IN  \A headers \in HeaderChoices(body) :
                    payment_webhook(provider, headers, body)
                    => /\ last'.resp = Response(400, "Invalid signature", 0)
                       /\ UNCHANGED <<redis, ledger, tasks>>]_vars

\* a webhook of the provider without secret, on a payment initiated through it, was
\* refused: no marker for it, the payment still initiated, the booking confirmed
C39Witness ==
    /\ last.op = "webhook"
    /\ last.provider \in UnsetProviders
    /\ last.resp = Response(400, "Invalid signature", 0)
    /\ \A key \in markers : key[1] \notin UnsetProviders
    /\ \E i \in DOMAIN payments :
          /\ payments[i].provider \in UnsetProviders
          /\ payments[i].status = "initiated"
          /\ bookings[payments[i].booking_id].status = "confirmed"

====
